---- MODULE Spec2Model ----
(***************************************************************************)
(* A model of the warehouse multi-agent system: the AgentOrchestrator's    *)
(* message bus (per-role queues and worker threads), its knowledge base,   *)
(* the direct query entry points, and BaseAgent.process.                   *)
(***************************************************************************)
EXTENDS Integers, Sequences, FiniteSets, TLC

\* ------------------------------------------------------------------ bounds
\* external send_message calls in one run of Spec
MaxSend == 2
\* external send_message calls in one run of FairSpec
MaxFairSend == 2
\* external calls (send_message, direct queries, process_documents) in one run of SysSpec
MaxSysOps == 2
\* documents in one process_documents batch
MaxDocs == 2
\* paths in one DocumentProcessor.process_documents call
MaxPaths == 2
\* DocumentProcessor.process_documents calls in one run of DocSpec
MaxBatches == 2
\* items in one ABC classification
MaxItems == 3
\* the largest value of an item
MaxValue == 3
\* keyword hits of one domain in one query
MaxHits == 1
\* route_query calls in one run of RouteSpec
MaxRoutes == 2
\* documents found in processing_results.json at construction
MaxPreloaded == 1
\* process calls on the agent in one run of AgentSpec
MaxCalls == 3
\* tool calls in one completion
MaxTools == 2
\* process, process_stream and reset_conversation calls in one run of HistorySpec
MaxHistoryCalls == 11
MaxGroupCalls == 4     \* calls on one GroupOrchestrator
MaxParticipants == 2   \* participants of one group discussion
MaxCollabCalls == 4    \* calls on one CollaborationManager

\* ------------------------------------------------------------- vocabulary
\* AgentRole values
Roles == {"inventory", "operations", "supervisor", "math"}

\* The roles whose agent is a BaseAgent subclass keeping BaseAgent.process
\* (it returns an AgentResponse object); SupervisorAgent and MathAgent
\* override process and return a str.
BaseProcessRoles == {"inventory", "operations"}

\* what agent.process hands back to _handle_message, by the class of the agent:
\* "obj"   an AgentResponse (truthy, not subscriptable),
\* "str"   a non-empty str, "empty" the empty str (falsy).
ProcessOutcomes(r) == IF r \in BaseProcessRoles THEN {"obj"} ELSE {"str", "empty"}

\* Python truthiness of a response
Truthy(resp) == resp # "empty"

\* message.content[:100] raises TypeError on an AgentResponse
Subscriptable(content) == content # "obj"

NoMsg == [id |-> 0]

VARIABLES
  call,       \* an analysis function call: the agent, the function, its input, its result
  grp,        \* the GroupOrchestrator: its conversations, its last return value
  collab,     \* the CollaborationManager: its agents and conversations, its last outcome
  abc,        \* an ABC classification call: the tool, its items, its result
  dp,         \* the DocumentProcessor: its stats and stored documents, its last batch
  routing,    \* route_query calls: those still to come, the last one, all so far
  hand,       \* the handoff procedure: its position, chain so far, chain returned
  queue,      \* message_queues: role -> sequence of AgentMessage
  wpc,        \* position of each role's worker thread in _process_messages
  cur,        \* the message a worker is handling (NoMsg when polling)
  stuck,      \* whether the agent.process call a worker is in never returns
  kb,         \* knowledge_base
  created,    \* every AgentMessage constructed so far, in construction order
  enq,        \* per role, the ids put on its queue, in put order
  handled,    \* per role, the ids whose _handle_message call has returned
  failed,     \* per role, whether a _handle_message call of its worker raised
  opsLeft,    \* external calls (send_message, queries, process_documents) still to come
  cpc,        \* position of the one direct caller
  cres,       \* what the last direct call returned
  docsRun,    \* outcome of the last process_documents call
  ag,         \* one BaseAgent: its state dict and conversation_history
  result,     \* what its last process call returned (or that it raised)
  trace,      \* the completions and tool functions its last process call ran
  callsLeft   \* process calls still to come

busVars == <<queue, wpc, cur, stuck, kb, created, enq, handled, failed, opsLeft>>
callerVars == <<cpc, cres>>
docVars == <<docsRun>>
agentVars == <<ag, result, trace, callsLeft>>
moreVars == <<call, grp, collab>>
extVars == <<hand, routing, dp, abc, moreVars>>
vars == <<busVars, callerVars, docVars, agentVars, extVars>>

\* ---------------------------------------------------------------- messages
\* AgentMessage(sender, receiver, content, context); id stands for the
\* timestamp __post_init__ stamps on it (the construction order).
\*   content            "str" or "obj": what kind of Python value content is
\*   insight            "insight" in context
\*   requires_response  context.get("requires_response", False)
\*   task               context["task"], "none" when absent
\*   in_response_to     context["in_response_to"], 0 when absent
AgentMessage(i, s, r, c, ins, rr, t, irt) ==
  [id |-> i, sender |-> s, receiver |-> r, content |-> c, insight |-> ins,
   requires_response |-> rr, task |-> t, in_response_to |-> irt]

\* (mutant) the message lands on the sender's queue
send_message_to_sender(q, m) == [q EXCEPT ![m.sender] = Append(@, m)]

\* send_message: put on the receiver's queue (queue.Queue(), unbounded: never waits)
send_message(q, m) == [q EXCEPT ![m.receiver] = Append(@, m)]

\* the ids of a sequence of messages
Ids(ms) == [k \in 1..Len(ms) |-> ms[k].id]

\* (mutant) get hands out the newest element
GetIndexNewest(q) == Len(q)

\* queue.Queue.get hands out the oldest element
GetIndex(q) == 1

\* a sequence without its k-th element
Without(q, k) == [j \in 1..(Len(q) - 1) |-> IF j < k THEN q[j] ELSE q[j + 1]]

\* the knowledge-base entry _handle_message appends for a message with an insight
InsightEntry(m) == [source |-> m.sender, content |-> m.id, timestamp |-> m.id]

\* (mutant) an append that writes at a stale index: the last entry is overwritten
AppendInsightStale(insights, e) ==
  IF insights = <<>> THEN <<e>> ELSE [insights EXCEPT ![Len(insights)] = e]

\* list.append on knowledge_base["insights"]
AppendInsight(insights, e) == Append(insights, e)

\* (mutant) the exception ends the worker thread
AfterHandlingErrorDies == "dead"

\* where the worker loop goes after _handle_message logged an exception:
\* the except clause swallows it, task_done runs, the loop polls again
AfterHandlingError == "poll"

\* (mutant) the reply asks for a response in its turn
ReplyAsking(i, m, resp) ==
  AgentMessage(i, m.receiver, m.sender, resp, FALSE, TRUE, "none", m.id)

\* the reply _handle_message builds for message m and response resp
Reply(i, m, resp) ==
  AgentMessage(i, m.receiver, m.sender, resp, FALSE, FALSE, "none", m.id)

\* (mutant) every non-empty response is sent back
SendsReplyAlways(m, resp) == Truthy(resp)

\* whether _handle_message sends a reply
SendsReply(m, resp) == Truthy(resp) /\ m.requires_response

\* --------------------------------------------------------- construction
\* _share_results_with_agents: the documents kept from data["results"]
\* (success and a non-empty document_text); each result is "ok", "ok_empty" or "fail"
SharedDocuments(results) == SelectSeq(results, LAMBDA x : x = "ok")

\* the messages _share_results_with_agents sends for n documents, ids from i + 1:
\* per document one to inventory, then one to operations
ShareMessages(i, n) ==
  [k \in 1..(2 * n) |->
     AgentMessage(i + k, "supervisor",
                  IF k % 2 = 1 THEN "inventory" ELSE "operations",
                  "str", FALSE, FALSE, "process_document", 0)]

RECURSIVE SendAll(_, _)
SendAll(q, ms) == IF ms = <<>> THEN q ELSE SendAll(send_message(q, Head(ms)), Tail(ms))

EmptyQueues == [r \in Roles |-> <<>>]

\* __init__: empty queues and knowledge base, workers started, then
\* _load_processing_results shares the documents found on disk (n of them)
InitBus(n) ==
  /\ queue = SendAll(EmptyQueues, ShareMessages(0, n))
  /\ wpc = [r \in Roles |-> "poll"]
  /\ cur = [r \in Roles |-> NoMsg]
  /\ stuck = [r \in Roles |-> FALSE]
  /\ kb = [documents |-> [k \in 1..n |-> [text |-> "str", metadata |-> k]],
           insights |-> <<>>, decisions |-> <<>>, calculations |-> <<>>]
  /\ created = ShareMessages(0, n)
  /\ enq = [r \in Roles |-> Ids(SendAll(EmptyQueues, ShareMessages(0, n))[r])]
  /\ handled = [r \in Roles |-> <<>>]
  /\ failed = [r \in Roles |-> FALSE]

\* ------------------------------------------------------------- the bus
\* a caller of send_message(AgentMessage(s, r, <str>, context))
Send(s, r, ins, rr) ==
  /\ opsLeft > 0
  /\ LET m == AgentMessage(Len(created) + 1, s, r, "str", ins, rr, "none", 0) IN
       /\ queue' = send_message(queue, m)
       /\ created' = Append(created, m)
       /\ enq' = [enq EXCEPT ![r] = Append(@, m.id)]
  /\ opsLeft' = opsLeft - 1
  /\ UNCHANGED <<wpc, cur, stuck, kb, handled, failed, callerVars, docVars, agentVars, extVars>>

\* (mutant) the workers share one lock held over the whole handling
MayTakeExclusive(r) == \A w \in Roles : wpc[w] = "poll"

\* whether a worker may start on a message: each worker is a thread of its own
\* and takes no lock shared with another worker
MayTake(r) == wpc[r] = "poll"

\* _process_messages(role), from get() to the call of the agent's process:
\* get, the debug log line, the insight append, the dispatch on receiver.
\* hang: whether the process call entered here never returns.
WorkerTake(r, hang) ==
  /\ MayTake(r)
  /\ queue[r] # <<>>
  /\ LET k == GetIndex(queue[r])
         m == queue[r][k] IN
       /\ queue' = [queue EXCEPT ![r] = Without(@, k)]
       /\ IF ~Subscriptable(m.content)
            THEN \* message.content[:100] raises; _handle_message logs and returns
                 /\ wpc' = [wpc EXCEPT ![r] = AfterHandlingError]
                 /\ handled' = [handled EXCEPT ![r] = Append(@, m.id)]
                 /\ failed' = [failed EXCEPT ![r] = TRUE]
                 /\ UNCHANGED <<cur, stuck, kb>>
            ELSE /\ kb' = IF m.insight
                            THEN [kb EXCEPT !.insights = AppendInsight(@, InsightEntry(m))]
                            ELSE kb
                 /\ wpc' = [wpc EXCEPT ![r] = "processing"]
                 /\ cur' = [cur EXCEPT ![r] = m]
                 /\ stuck' = [stuck EXCEPT ![r] = hang]
                 /\ UNCHANGED <<handled, failed>>
  /\ UNCHANGED <<created, enq, opsLeft, callerVars, docVars, agentVars, extVars>>

\* _process_messages(role), from the return of the agent's process to task_done
WorkerFinish(r) ==
  /\ wpc[r] = "processing"
  /\ ~stuck[r]
  /\ \E resp \in ProcessOutcomes(cur[r].receiver) :
       LET m == cur[r]
           rep == Reply(Len(created) + 1, m, resp) IN
         IF SendsReply(m, resp)
           THEN /\ queue' = send_message(queue, rep)
                /\ created' = Append(created, rep)
                /\ enq' = [enq EXCEPT ![rep.receiver] = Append(@, rep.id)]
           ELSE UNCHANGED <<queue, created, enq>>
  /\ handled' = [handled EXCEPT ![r] = Append(@, cur[r].id)]
  /\ wpc' = [wpc EXCEPT ![r] = "poll"]
  /\ cur' = [cur EXCEPT ![r] = NoMsg]
  /\ UNCHANGED <<stuck, kb, failed, opsLeft, callerVars, docVars, agentVars, extVars>>

\* ------------------------------------------------------- direct callers
Idle == [at |-> "idle", op |-> "none", agent |-> "none", stage |-> "none"]

NoResult == [op |-> "none", error |-> FALSE, agent_type |-> "none"]

InProcess(op, agent, stage) ==
  [at |-> "process", op |-> op, agent |-> agent, stage |-> stage]

\* SupervisorAgent.validate_decision(self, decision_data) takes one argument
ValidateDecisionAccepts(nargs) == nargs = 1

\* the entry process_query appends to knowledge_base["calculations"]
\* datetime.now() read as a logical clock: the number of messages created and
\* calculations recorded so far, so that later readings are later
Now(k, c) == Len(c) + Len(k.calculations)

CalculationEntry(t) ==
  [query |-> "query", solution |-> "str", verification |-> "str", timestamp |-> t]

\* (mutant) only the latest calculation is kept
RecordCalculationOnly(k, e) == [k EXCEPT !.calculations = <<e>>]

\* knowledge_base["calculations"].append(e)
RecordCalculation(k, e) == [k EXCEPT !.calculations = Append(@, e)]

\* the entry process_query appends to knowledge_base["decisions"]
DecisionEntry(a, t) ==
  [query |-> "query", primary_agent |-> a, response |-> "obj",
   validation |-> "str", timestamp |-> t]

\* process_query(query, agent_type) up to its first call of an agent's process.
\* math: what _requires_math_reasoning(query) returns;
\* atype: "none" (no agent_type), "inventory", "operations", or an unknown name
ProcessQueryStart(math, atype) ==
  /\ cpc.at = "idle"
  /\ opsLeft > 0
  /\ opsLeft' = opsLeft - 1
  /\ LET a == IF atype = "none" THEN "inventory" ELSE atype IN
       IF math
         THEN /\ cpc' = InProcess("process_query", "math", "solve")
              /\ cres' = [cres EXCEPT !.agent_type = atype]
         ELSE IF a \notin {"inventory", "operations"}
           THEN \* ValueError, caught: the error result
                /\ cres' = [op |-> "process_query", error |-> TRUE, agent_type |-> a]
                /\ UNCHANGED cpc
           ELSE /\ cpc' = InProcess("process_query", a, "agent")
                /\ cres' = [cres EXCEPT !.agent_type = a]
  /\ UNCHANGED <<queue, wpc, cur, stuck, kb, created, enq, handled, failed, docVars, agentVars, extVars>>

\* process_query_with_validation(query, context) up to its call of an agent's
\* process; route: what supervisor_agent.route_query(query) returns
ProcessQueryWithValidationStart(route) ==
  /\ cpc.at = "idle"
  /\ opsLeft > 0
  /\ opsLeft' = opsLeft - 1
  /\ cpc' = InProcess("process_query_with_validation", route, "agent")
  /\ cres' = [cres EXCEPT !.agent_type = route]
  /\ UNCHANGED <<queue, wpc, cur, stuck, kb, created, enq, handled, failed, docVars, agentVars, extVars>>

\* the agent's process call the caller is in returns; the caller runs on to its
\* next process call or to its return
CallerReturn ==
  /\ cpc.at = "process"
  /\ IF cpc.op = "process_query" /\ cpc.stage = "solve"
       THEN \* math_agent.process(math_response, {"task": "verify", ...})
            /\ cpc' = InProcess("process_query", "math", "verify")
            /\ UNCHANGED <<kb, cres>>
       ELSE IF cpc.op = "process_query" /\ cpc.stage = "verify"
         THEN \* calculations.append, validate_decision({...}), return
              /\ kb' = RecordCalculation(kb, CalculationEntry(Now(kb, created)))
              /\ cres' = [op |-> "process_query", error |-> FALSE,
                          agent_type |-> cres.agent_type]
              /\ cpc' = Idle
         ELSE IF cpc.op = "process_query"
           THEN \* validate_decision(agent_type, response): two arguments
                IF ValidateDecisionAccepts(2)
                  THEN /\ kb' = [kb EXCEPT !.decisions =
                                   Append(@, DecisionEntry(cpc.agent, Len(created)))]
                       /\ cres' = [op |-> "process_query", error |-> FALSE,
                                   agent_type |-> cpc.agent]
                       /\ cpc' = Idle
                  ELSE \* TypeError, caught: the error result
                       /\ cres' = [op |-> "process_query", error |-> TRUE,
                                   agent_type |-> cpc.agent]
                       /\ cpc' = Idle
                       /\ UNCHANGED kb
           ELSE \* process_query_with_validation: validate_response, return
                /\ cres' = [op |-> "process_query_with_validation", error |-> FALSE,
                            agent_type |-> cpc.agent]
                /\ cpc' = Idle
                /\ UNCHANGED kb
  /\ UNCHANGED <<queue, wpc, cur, stuck, created, enq, handled, failed, opsLeft, docVars, agentVars, extVars>>

\* ---------------------------------------------------- process_documents
\* ProcessingResult is a dataclass with four fields and no to_dict method
ProcessingResultHasToDict == FALSE

\* the number of "ok" or "ok_empty" (success = True) results
RECURSIVE Successes(_)
Successes(results) ==
  IF results = <<>> THEN 0
  ELSE (IF Head(results) \in {"ok", "ok_empty"} THEN 1 ELSE 0) + Successes(Tail(results))

\* the extract_insights messages of process_documents for n successful results,
\* ids from i + 1: per result one to inventory, then one to operations
InsightTasks(i, n) ==
  [k \in 1..(2 * n) |->
     AgentMessage(i + k, "supervisor",
                  IF k % 2 = 1 THEN "inventory" ELSE "operations",
                  "str", FALSE, FALSE, "extract_insights", 0)]

\* the messages process_documents sends for the results of a batch
\* (results # <<>>): none when result.to_dict() raises AttributeError
DocumentMessages(i, results) ==
  IF ~ProcessingResultHasToDict THEN <<>>
  ELSE ShareMessages(i, Len(SharedDocuments(results)))
         \o InsightTasks(i + 2 * Len(SharedDocuments(results)), Successes(results))

\* the results process_documents returns
DocumentsReturned(results) ==
  IF results # <<>> /\ ~ProcessingResultHasToDict THEN <<>> ELSE results

\* the number of messages of task t in a sequence of messages
CountTask(ms, t) == Cardinality({k \in 1..Len(ms) : ms[k].task = t})

Batches == UNION {[1..n -> {"ok", "ok_empty", "fail"}] : n \in 0..MaxDocs}

\* process_documents(file_paths); results: what
\* document_processor.process_documents(file_paths) returns, one per path
ProcessDocuments(results) ==
  /\ opsLeft > 0
  /\ opsLeft' = opsLeft - 1
  /\ LET ms == IF results = <<>> THEN <<>> ELSE DocumentMessages(Len(created), results)
         docs == IF results = <<>> \/ ~ProcessingResultHasToDict THEN <<>>
                 ELSE [k \in 1..Len(SharedDocuments(results)) |->
                         [text |-> "str", metadata |-> k]] IN
       /\ queue' = SendAll(queue, ms)
       /\ created' = created \o ms
       /\ enq' = [r \in Roles |-> enq[r] \o Ids(SendAll(EmptyQueues, ms)[r])]
       /\ kb' = [kb EXCEPT !.documents = @ \o docs]
       /\ docsRun' = [calls |-> docsRun.calls + 1,
                      succeeded |-> Successes(results),
                      sent |-> Len(ms),
                      insight_tasks |-> CountTask(ms, "extract_insights"),
                      returned |-> Len(DocumentsReturned(results))]
  /\ UNCHANGED <<wpc, cur, stuck, handled, failed, callerVars, agentVars, extVars>>

\* ---------------------------------------------------- BaseAgent.process
NoResponse == [kind |-> "none"]

NoTrace ==
  [completions |-> 0, tools |-> <<>>, events |-> <<>>, returned |-> FALSE,
   tool_calls |-> <<>>]

\* BaseAgent.__init__: the state dict and an empty conversation_history
AgentInitState ==
  [queries_processed |-> 0, last_activity |-> 0, total_tokens_used |-> 0,
   history |-> <<>>]

\* (mutant) the handler catches only the failures of the completion call
CaughtApiOnly(failure) == failure = "completion"

\* process wraps its whole body in try / except Exception: every failure is caught
Caught(failure) == TRUE

\* the AgentResponse of the except clause: content "Error: <text>",
\* function_calls left at its default, metadata {"error": True}
ErrorResponse(failure) ==
  [kind |-> "response", content |-> "error_summary", function_calls |-> <<>>,
   metadata |-> {"error"}, failure |-> failure]

\* the AgentResponse of the success path
SuccessResponse(content, calls) ==
  [kind |-> "response", content |-> content, function_calls |-> calls,
   metadata |-> {"tokens_used", "model"}, failure |-> "none"]

\* what the caller of process gets when the body fails
OnFailure(failure) ==
  IF Caught(failure) THEN ErrorResponse(failure) ELSE [kind |-> "raised", failure |-> failure]

\* What a failing analysis function hands back to the tool loop, by function:
\* the InventoryAgent functions catch their own exceptions (or test their
\* input) and return {"error": ...}; OperationsAgent._execute_function
\* computes units / time_hours with no try, so ZeroDivisionError leaves it.
AnalysisFailure ==
  [calculate_eoq |-> "error_dict", forecast_demand |-> "error_dict",
   abc_classification |-> "error_dict", calculate_throughput |-> "raises"]

\* (mutant) the loop puts each executed call at the head of function_calls
RECURSIVE RunToolsNewestFirst(_, _, _, _)
RunToolsNewestFirst(tools, k, calls, ran) ==
  IF k > Len(tools) THEN [failure |-> "none", calls |-> calls, ran |-> ran]
  ELSE IF tools[k] = "bad_args"
    THEN [failure |-> "arguments", calls |-> calls, ran |-> ran]
  ELSE IF tools[k] = "raises"
    THEN [failure |-> "function", calls |-> calls, ran |-> Append(ran, k)]
  ELSE RunToolsNewestFirst(tools, k + 1,
                           <<[function |-> k, result |-> tools[k]]>> \o calls,
                           Append(ran, k))

\* The loop over message.tool_calls. Each tool call is
\*   "ok"          arguments parse, the function returns a result
\*   "error_dict"  arguments parse, the function returns {"error": ...}
\*   "bad_args"    json.loads(arguments) raises
\*   "raises"      arguments parse, _execute_function raises
\* k: the place of the call in tool_calls. Yields the failure ("none" when the
\* loop ends), the function_calls built and the functions run, in order.
RECURSIVE RunTools(_, _, _, _)
RunTools(tools, k, calls, ran) ==
  IF k > Len(tools) THEN [failure |-> "none", calls |-> calls, ran |-> ran]
  ELSE IF tools[k] = "bad_args"
    THEN [failure |-> "arguments", calls |-> calls, ran |-> ran]
  ELSE IF tools[k] = "raises"
    THEN [failure |-> "function", calls |-> calls, ran |-> Append(ran, k)]
  ELSE RunTools(tools, k + 1,
                Append(calls, [function |-> k, result |-> tools[k]]),
                Append(ran, k))

\* the completion capability in the log of one process call; the tool
\* functions are logged by their place in tool_calls (1, 2, ...)
Completion == 0

\* One call of process(input_data, context) on agent state a. The scenario sc:
\*   context   "none", "ok", or "bad" (json.dumps(context) raises)
\*   first     "raise" (the completion call fails or times out) or "ok"
\*   content   "text" or "none": message.content of the first completion
\*   tools     its tool_calls
\*   second    "raise", "text" or "none": the second completion's outcome / content
\* Yields the agent state after the call, what the caller gets, and the trace:
\* the number of completion calls, the tool functions run, the log of both in
\* the order they were invoked, and the tool_calls the first completion
\* returned (returned: it did return).
Process(a, sc) ==
  LET Trace(n, ran, events) ==
        [completions |-> n, tools |-> ran, events |-> events,
         returned |-> sc.context # "bad" /\ sc.first = "ok",
         tool_calls |-> IF sc.context # "bad" /\ sc.first = "ok" THEN sc.tools ELSE <<>>]
      fail(f, n, ran, events, a2) ==
        [ag |-> a2, resp |-> OnFailure(f), trace |-> Trace(n, ran, events)]
      \* "Update state" and "Store in conversation history"
      updated(content, tokens) ==
        [a EXCEPT !.queries_processed = @ + 1,
                  !.last_activity = a.queries_processed + 1,
                  !.total_tokens_used = @ + tokens,
                  !.history = Append(@, [user |-> "str", assistant |-> content])]
      \* the return statement: AgentResponse requires content to be a str
      finish(content, calls, n, ran, events) ==
        IF content = "none"
          THEN fail("validation", n, ran, events, updated(content, 1))
          ELSE [ag |-> updated(content, 1), resp |-> SuccessResponse(content, calls),
                trace |-> Trace(n, ran, events)]
  IN
  IF sc.context = "bad" THEN fail("context", 0, <<>>, <<>>, a)
  ELSE IF sc.first = "raise" THEN fail("completion", 1, <<>>, <<Completion>>, a)
  ELSE IF sc.tools = <<>>
    THEN \* content = message.content or ""
         finish(IF sc.content = "none" THEN "empty" ELSE sc.content, <<>>, 1, <<>>,
                <<Completion>>)
  ELSE LET t == RunTools(sc.tools, 1, <<>>, <<>>) IN
    IF t.failure # "none" THEN fail(t.failure, 1, t.ran, <<Completion>> \o t.ran, a)
    ELSE IF sc.second = "raise"
      THEN fail("completion", 2, t.ran, <<Completion>> \o t.ran \o <<Completion>>, a)
    ELSE finish(sc.second, t.calls, 2, t.ran, <<Completion>> \o t.ran \o <<Completion>>)

ToolLists == UNION {[1..n -> {"ok", "error_dict", "bad_args", "raises"}] : n \in 0..MaxTools}

Scenarios ==
  [context : {"none", "ok", "bad"}, first : {"raise", "ok"}, content : {"text", "none"},
   tools : ToolLists, second : {"raise", "text", "none"}]

\* a caller runs process on the agent
CallProcess(sc) ==
  /\ callsLeft > 0
  /\ callsLeft' = callsLeft - 1
  /\ LET out == Process(ag, sc) IN
       /\ ag' = out.ag
       /\ result' = out.resp
       /\ trace' = out.trace
  /\ UNCHANGED <<busVars, callerVars, docVars, extVars>>

\* config.MAX_CONVERSATION_HISTORY, "Number of exchanges to keep in memory";
\* no code reads it
MAX_CONVERSATION_HISTORY == 10

\* process_stream(input_data, context), run to the end of its generator.
\* outcome: "ok" (the stream ends: state update and history append) or
\* "raise" (the completion call or the stream fails: an error chunk is
\* yielded, nothing is stored)
ProcessStream(outcome) ==
  /\ callsLeft > 0
  /\ callsLeft' = callsLeft - 1
  /\ ag' = IF outcome = "ok"
             THEN [ag EXCEPT !.queries_processed = @ + 1,
                             !.last_activity = ag.queries_processed + 1,
                             !.history = Append(@, [user |-> "str", assistant |-> "text"])]
             ELSE ag
  /\ UNCHANGED <<result, trace, busVars, callerVars, docVars, extVars>>

\* reset_conversation()
ResetConversation ==
  /\ callsLeft > 0
  /\ callsLeft' = callsLeft - 1
  /\ ag' = [ag EXCEPT !.history = <<>>]
  /\ UNCHANGED <<result, trace, busVars, callerVars, docVars, extVars>>

\* ------------------------------------------------- processWithHandoff
\* The agents a request can be handed to: the AgentRole set of the design
HandoffAgents == {"supervisor", "inventory", "operations", "math", "quality"}

\* the hop bound of the handoff loop
MaxHandoffs == 5

NoHandoff == [at |-> "idle", chain |-> <<>>, returned |-> <<>>]

Last(q) == q[Len(q)]

\* (mutant) the bound tested one hop too late
MayRedirectOffByOne(chain) == Len(chain) <= MaxHandoffs /\ Last(chain) = "supervisor"

\* after a hop the chain goes on only when the current agent is the
\* Supervisor (it redirects via the RoutingEngine) and the bound allows one
\* more hop; any other hop ends the chain
MayRedirect(chain) == Len(chain) < MaxHandoffs /\ Last(chain) = "supervisor"

\* processWithHandoff(query, initial): the first hop is the initial agent
ProcessWithHandoffStart(initial) ==
  /\ hand.at = "idle"
  /\ hand' = [hand EXCEPT !.at = "running", !.chain = <<initial>>]
  /\ UNCHANGED <<busVars, callerVars, docVars, agentVars, routing, dp, abc, moreVars>>

\* the current agent has processed the request; routed: the agent the
\* RoutingEngine names if the Supervisor asks it
HandoffHop(routed) ==
  /\ hand.at = "running"
  /\ IF MayRedirect(hand.chain)
       THEN hand' = [hand EXCEPT !.chain = Append(@, routed)]
       ELSE hand' = [hand EXCEPT !.at = "idle", !.returned = hand.chain]
  /\ UNCHANGED <<busVars, callerVars, docVars, agentVars, routing, dp, abc, moreVars>>

\* ------------------------------------------------------- route_query
\* the domains a query can touch, in the priority order of the design
Domains == <<"inventory", "operations", "math", "quality">>

\* A query text, by the number of keyword hits it has in each domain
\* (one text stands for each score vector)
Queries == [1..Len(Domains) -> 0..MaxHits]

\* what model.generate_content(prompt) yields: response.text stripped and
\* lowered ("other": any text that names no agent), or "raise"
Answers == {"inventory", "operations", "math", "quality", "other", "raise"}

\* SupervisorAgent.route_query(query): the model's answer when it is one of
\* the three names, inventory otherwise and on any exception; the query text
\* reaches the prompt only
route_query(query, answer) ==
  IF answer \in {"inventory", "operations", "math"} THEN answer ELSE "inventory"

NoRouting == [left |-> MaxRoutes, last |-> [agent |-> "none"], log |-> {}]

\* a caller runs route_query(query) and the model answers
RouteQuery(query, answer) ==
  /\ routing.left > 0
  /\ LET a == route_query(query, answer) IN
       routing' = [left |-> routing.left - 1,
                   last |-> [agent |-> a, query |-> query, answer |-> answer],
                   log |-> routing.log \cup {<<query, a>>}]
  /\ UNCHANGED <<busVars, callerVars, docVars, agentVars, hand, dp, abc, moreVars>>

\* --------------------------------------------------- DocumentProcessor
\* A path, by what processing its file runs into:
\*   "missing"     file_path_obj.exists() is false
\*   "oserror"     exists() raises (the outer except of process_file)
\*   "docling"     the Docling converter converts it
\*   "fallback"    Docling is unavailable or fails, the fallback reads it
\*   "unreadable"  Docling is unavailable or fails, and the fallback raises
PathKinds == {"missing", "oserror", "docling", "fallback", "unreadable"}

\* the ProcessedDocument process_file returns for a path
ProcessedDocument(path) ==
  IF path = "missing"
    THEN [success |-> FALSE, content |-> "", metadata |-> "empty", error |-> "not_found"]
  ELSE IF path \in {"oserror", "unreadable"}
    THEN [success |-> FALSE, content |-> "", metadata |-> "empty", error |-> "str"]
  ELSE [success |-> TRUE, content |-> IF path = "docling" THEN "markdown" ELSE "text",
        metadata |-> path, error |-> "None"]

\* the processor's state after process_file(path): a missing file returns
\* before anything is counted; a success is stored and counted; a failure
\* of processing is counted. files: the process_file calls made so far
AfterProcessFile(d, path) ==
  IF path = "missing" THEN [d EXCEPT !.files = @ + 1]
  ELSE IF path \in {"oserror", "unreadable"}
    THEN [d EXCEPT !.files = @ + 1, !.total_processed = @ + 1, !.failed = @ + 1]
  ELSE [d EXCEPT !.files = @ + 1, !.total_processed = @ + 1, !.successful = @ + 1,
                 !.processed_documents = @ + 1]

\* the legacy ProcessingResult built from a ProcessedDocument
ProcessingResult(doc) ==
  [success |-> doc.success, document_text |-> doc.content,
   document_metadata |-> doc.metadata,
   error |-> IF doc.error = "None" THEN "" ELSE doc.error]

\* (mutant) only the documents that were read are kept
AppendResultIfRead(results, r) == IF r.success THEN Append(results, r) ELSE results

\* results.append(result)
AppendResult(results, r) == Append(results, r)

\* the loop of process_documents over file_paths from place k on
RECURSIVE ProcessFiles(_, _, _, _)
ProcessFiles(paths, k, d, results) ==
  IF k > Len(paths) THEN [d |-> d, results |-> results]
  ELSE ProcessFiles(paths, k + 1, AfterProcessFile(d, paths[k]),
                    AppendResult(results, ProcessingResult(ProcessedDocument(paths[k]))))

NewProcessor ==
  [left |-> 0, files |-> 0, total_processed |-> 0, successful |-> 0, failed |-> 0,
   processed_documents |-> 0, calls |-> 0, paths |-> <<>>, results |-> <<>>]

PathLists == UNION {[1..n -> PathKinds] : n \in 0..MaxPaths}

\* DocumentProcessor.process_documents(file_paths)
ProcessDocumentsBatch(paths) ==
  /\ dp.left > 0
  /\ LET out == ProcessFiles(paths, 1, dp, <<>>) IN
       dp' = [out.d EXCEPT !.left = @ - 1, !.calls = @ + 1,
                           !.paths = paths, !.results = out.results]
  /\ UNCHANGED <<busVars, callerVars, docVars, agentVars, hand, routing, abc, moreVars>>

\* ---------------------------------------------------- ABC classification
\* InventoryAgent._abc_classification (items of sku / annual_value) and
\* QualityAgent._abc_analysis (items of name / value) run the same steps.
AbcTools == {"abc_classification", "abc_analysis"}

\* the items of a call: item k is [id |-> k, value |-> values[k]]
Items(values) == [k \in 1..Len(values) |-> [id |-> k, value |-> values[k]]]

\* sorted(items, key = value, reverse = True): descending, and stable (items
\* of equal value keep their input order)
RECURSIVE InsertDesc(_, _)
InsertDesc(sorted, item) ==
  IF sorted = <<>> THEN <<item>>
  ELSE IF Head(sorted).value >= item.value
    THEN <<Head(sorted)>> \o InsertDesc(Tail(sorted), item)
    ELSE <<item>> \o sorted

RECURSIVE SortDesc(_)
SortDesc(items) ==
  IF items = <<>> THEN <<>>
  ELSE InsertDesc(SortDesc(SubSeq(items, 1, Len(items) - 1)), items[Len(items)])

RECURSIVE SumValues(_)
SumValues(items) == IF items = <<>> THEN 0 ELSE Head(items).value + SumValues(Tail(items))

\* round(100 * n / d, 2) in hundredths of a percent, halves to the even
\* neighbour (the percentages are taken as exact quotients)
RoundPercent(n, d) ==
  LET q == (10000 * n) \div d
      r == (10000 * n) % d IN
    IF 2 * r < d THEN q
    ELSE IF 2 * r > d THEN q + 1
    ELSE IF q % 2 = 0 THEN q ELSE q + 1

\* (mutant) the percentage is stored instead of added
AccumulateLast(cumulative, value) == value

\* cumulative += percent; kept as the sum of the values, over the total
Accumulate(cumulative, value) == cumulative + value

\* the category by cumulative percentage 100 * cumulative / total:
\* <= 80 A, <= 95 B, else C
Category(cumulative, total) ==
  IF 100 * cumulative <= 80 * total THEN "A"
  ELSE IF 100 * cumulative <= 95 * total THEN "B"
  ELSE "C"

\* the loop over sorted_items from place k on
RECURSIVE Classify(_, _, _, _, _)
Classify(sorted, k, total, cumulative, results) ==
  IF k > Len(sorted) THEN results
  ELSE LET c == Accumulate(cumulative, sorted[k].value) IN
    Classify(sorted, k + 1, total, c,
             Append(results,
                    [id |-> sorted[k].id, value |-> sorted[k].value,
                     percentage |-> RoundPercent(sorted[k].value, total),
                     cumulative_percentage |-> RoundPercent(c, total),
                     category |-> Category(c, total)]))

\* the ids of the results of category c, in result order
OfCategory(results, c) ==
  LET sel == SelectSeq(results, LAMBDA x : x.category = c) IN
    [k \in 1..Len(sel) |-> sel[k].id]

\* (mutant) an empty classification is returned for no items
NoItemsDefault ==
  [kind |-> "classification", classification |-> <<>>,
   a_items |-> <<>>, b_items |-> <<>>, c_items |-> <<>>]

\* if not items: return {"error": "No items provided"}
NoItemsResult == [kind |-> "error", error |-> "No items provided"]

\* the dict the function returns: {"error": ...} for no items and when the
\* total is 0 (ZeroDivisionError, caught), the classification otherwise
AbcResult(values) ==
  IF values = <<>> THEN NoItemsResult
  ELSE LET sorted == SortDesc(Items(values))
           total == SumValues(sorted) IN
    IF total = 0 THEN [kind |-> "error", error |-> "division by zero"]
    ELSE LET results == Classify(sorted, 1, total, 0, <<>>) IN
      [kind |-> "classification", classification |-> results,
       a_items |-> OfCategory(results, "A"),
       b_items |-> OfCategory(results, "B"),
       c_items |-> OfCategory(results, "C")]

NoAbc == [tool |-> "none", values |-> <<>>, out |-> [kind |-> "none"]]

ValueLists == UNION {[1..n -> 0..MaxValue] : n \in 0..MaxItems}

\* the agent runs the tool on the items it was given
AbcClassification ==
  /\ abc.tool \in AbcTools
  /\ abc.out.kind = "none"
  /\ abc' = [abc EXCEPT !.out = AbcResult(abc.values)]
  /\ UNCHANGED <<busVars, callerVars, docVars, agentVars, hand, routing, dp, moreVars>>

\* ------------------------------------------------------ Pareto analysis
\* InventoryAgent._pareto_analysis_inventory (items of sku / metric_value)
\* and QualityAgent._pareto_analysis (items of name / value) run the same steps.
ParetoTools == {"pareto_analysis_inventory", "pareto_analysis"}

\* (mutant) the threshold is tested with <
IsVitalFewBelow(cumulative, total) == 100 * cumulative < 80 * total

\* "is_vital_few": cumulative <= 80, cumulative = 100 * (sum so far) / total
IsVitalFew(cumulative, total) == 100 * cumulative <= 80 * total

\* the loop over sorted_items from place k on
RECURSIVE ParetoLoop(_, _, _, _, _)
ParetoLoop(sorted, k, total, cumulative, results) ==
  IF k > Len(sorted) THEN results
  ELSE LET c == Accumulate(cumulative, sorted[k].value) IN
    ParetoLoop(sorted, k + 1, total, c,
               Append(results,
                      [id |-> sorted[k].id, value |-> sorted[k].value,
                       percentage |-> RoundPercent(sorted[k].value, total),
                       cumulative_percentage |-> RoundPercent(c, total),
                       is_vital_few |-> IsVitalFew(c, total),
                       rank |-> Len(results) + 1]))

\* the dict the function returns: {"error": ...} for no items and when the
\* total is 0 (ZeroDivisionError, caught), the analysis otherwise
ParetoResult(values) ==
  IF values = <<>> THEN [kind |-> "error", error |-> "No items provided"]
  ELSE LET sorted == SortDesc(Items(values))
           total == SumValues(sorted) IN
    IF total = 0 THEN [kind |-> "error", error |-> "division by zero"]
    ELSE LET results == ParetoLoop(sorted, 1, total, 0, <<>>) IN
      [kind |-> "analysis", analysis |-> results,
       vital_few |-> SelectSeq(results, LAMBDA x : x.is_vital_few),
       trivial_many |-> SelectSeq(results, LAMBDA x : ~x.is_vital_few)]

\* the agent runs the tool on the items it was given
ParetoAnalysis ==
  /\ abc.tool \in ParetoTools
  /\ abc.out.kind = "none"
  /\ abc' = [abc EXCEPT !.out = ParetoResult(abc.values)]
  /\ UNCHANGED <<busVars, callerVars, docVars, agentVars, hand, routing, dp, moreVars>>

\* --------------------------------------------------- analysis functions
\* the tools each agent's _execute_function dispatches on
Capabilities ==
  [inventory |-> {"calculate_eoq", "calculate_reorder_point", "calculate_safety_stock",
                  "analyze_inventory_turnover", "forecast_demand", "abc_classification",
                  "pareto_analysis_inventory"},
   operations |-> {"calculate_throughput", "calculate_cycle_time",
                   "calculate_labor_productivity", "analyze_equipment_utilization"},
   quality |-> {"pareto_analysis", "calculate_process_capability", "calculate_dpmo",
                "calculate_sigma_level", "analyze_process_variation", "abc_analysis"}]

AnalysisAgents == DOMAIN Capabilities

\* the keys of the dict each function returns when it computes its result
Schema(agent, fn) ==
  CASE fn = "calculate_eoq" ->
         {"eoq", "orders_per_year", "days_between_orders", "total_annual_cost",
          "average_inventory"}
    [] fn = "calculate_reorder_point" ->
         {"reorder_point", "lead_time_demand", "safety_stock", "recommendation"}
    [] fn = "calculate_safety_stock" ->
         {"safety_stock", "service_level", "z_score", "expected_stockout_probability",
          "recommendation"}
    [] fn = "analyze_inventory_turnover" ->
         {"turnover_rate", "days_in_inventory", "performance", "recommendation"}
    [] fn = "forecast_demand" ->
         {"forecasts", "method", "historical_average", "recent_average", "trend"}
    [] fn = "abc_classification" -> {"classification", "summary", "recommendations"}
    [] fn = "pareto_analysis_inventory" ->
         {"metric", "analysis", "vital_few", "trivial_many", "summary",
          "pareto_principle", "recommendation"}
    [] fn = "calculate_throughput" ->
         {"throughput_per_hour", "throughput_per_day", "units_processed",
          "time_period_hours"}
    [] fn = "calculate_cycle_time" ->
         {"cycle_time_minutes", "cycle_time_hours", "units_completed", "total_time_hours"}
    [] fn = "calculate_labor_productivity" ->
         {"productivity_units_per_hour", "productivity_per_worker", "total_units",
          "total_labor_hours", "number_of_workers"}
    [] fn = "analyze_equipment_utilization" ->
         {"utilization_percentage", "actual_hours", "available_hours", "idle_hours",
          "status"}
    [] fn = "pareto_analysis" ->
         {"analysis", "vital_few", "trivial_many", "summary", "recommendation"}
    [] fn = "calculate_process_capability" ->
         {"cp", "cpk", "cpu", "cpl", "process_mean", "process_std",
          "specification_range", "process_range", "interpretation", "estimated_dpmo",
          "sigma_level", "recommendation"}
    [] fn = "calculate_dpmo" ->
         {"defects", "units", "opportunities_per_unit", "total_opportunities", "dpo",
          "dpmo", "sigma_level", "yield_percentage", "quality_level", "recommendation"}
    [] fn = "calculate_sigma_level" ->
         {"yield_percentage", "defect_rate", "dpmo", "sigma_level", "quality_level"}
    [] fn = "analyze_process_variation" ->
         {"sample_size", "mean", "median", "std_dev", "variance",
          "coefficient_of_variation", "range", "iqr", "control_limits", "outliers",
          "stability", "recommendation"}
    [] fn = "abc_analysis" -> {"classification", "summary"}

\* The arguments of a tool call, by what they make of the function:
\*   "valid"    every parameter is there and the result can be computed
\*   "invalid"  every parameter is there, the computation fails (a zero
\*              divisor, too few data points, an empty list, a str for a number)
\*   "missing"  a required parameter is not in the arguments
Inputs == {"valid", "invalid", "missing"}

\* InventoryAgent and QualityAgent functions wrap their body in try / except
\* and return {"error": ...}; OperationsAgent computes inside
\* _execute_function with no try
CatchesOwnErrors(agent) == agent \in {"inventory", "quality"}

\* agent._execute_function(fn, arguments): a name the agent does not know
\* gives {"error": "Unknown function: ..."}; a missing parameter raises
\* (TypeError from self._fn(**arguments), KeyError from arguments[...]),
\* outside every try
ExecuteFunction(agent, fn, input) ==
  IF fn \notin Capabilities[agent] THEN [kind |-> "dict", fields |-> {"error"}]
  ELSE IF input = "missing" THEN [kind |-> "raised", fields |-> {}]
  ELSE IF input = "invalid"
    THEN IF CatchesOwnErrors(agent) THEN [kind |-> "dict", fields |-> {"error"}]
         ELSE [kind |-> "raised", fields |-> {}]
  ELSE [kind |-> "dict", fields |-> Schema(agent, fn)]

\* an agent's process runs the tool the completion asked for
ExecuteAnalysis ==
  /\ call.agent \in AnalysisAgents
  /\ call.out.kind = "none"
  /\ call' = [call EXCEPT !.out = ExecuteFunction(call.agent, call.fn, call.input)]
  /\ UNCHANGED <<busVars, callerVars, docVars, agentVars, hand, routing, dp, abc, grp, collab>>

\* ------------------------------------------------ before any call
NoCall == [agent |-> "none", fn |-> "none", input |-> "none", out |-> [kind |-> "none"]]

\* ------------------------------------------------- GroupOrchestrator
\* the agents that can be listed as participants of a discussion
Speakers == {"inventory", "operations"}

ParticipantLists == UNION {[1..n -> Speakers] : n \in 0..MaxParticipants}

NoGroupCall == [op |-> "none", id |-> 0, ret |-> "None"]

\* GroupOrchestrator.__init__: no conversations. left: the calls still to be
\* made; given, returned: per conversation, the participants passed at
\* creation and the speakers determine_next_speaker has returned, in order;
\* last: the last call and what it returned
NewGroupOrchestrator ==
  [left |-> 0, conversations |-> <<>>, given |-> <<>>, returned |-> <<>>,
   last |-> NoGroupCall]

\* the ConversationState create_group_discussion stores
ConversationState(participants) ==
  [active_speakers |-> <<>>, pending_responses |-> participants, stage |-> "initial"]

\* create_group_discussion(participants, initial_context): the id is
\* group_<number of conversations so far>, kept here as that number
CreateGroupDiscussion(participants) ==
  /\ grp.left > 0
  /\ grp' = [grp EXCEPT !.left = @ - 1,
                        !.conversations = Append(@, ConversationState(participants)),
                        !.given = Append(@, participants),
                        !.returned = Append(@, <<>>),
                        !.last = [op |-> "create_group_discussion",
                                  id |-> Len(grp.conversations), ret |-> "id"]]
  /\ UNCHANGED <<busVars, callerVars, docVars, agentVars, hand, routing, dp, abc, call, collab>>

\* conv_id in self.conversations
KnownGroup(conversations, id) == id + 1 \in 1..Len(conversations)

\* (mutant) the speaker is taken from the end of pending_responses
determine_last_speaker(conversations, id) ==
  IF ~KnownGroup(conversations, id) THEN [conversations |-> conversations, ret |-> "None"]
  ELSE LET state == conversations[id + 1] IN
    IF state.pending_responses # <<>>
      THEN LET n == Len(state.pending_responses)
               next_speaker == state.pending_responses[n] IN
           [conversations |->
              [conversations EXCEPT ![id + 1] =
                 [state EXCEPT !.pending_responses = SubSeq(@, 1, n - 1),
                               !.active_speakers = Append(@, next_speaker)]],
            ret |-> next_speaker]
      ELSE [conversations |-> conversations, ret |-> "None"]

\* determine_next_speaker(conv_id): the conversations after the call and the
\* value returned
determine_next_speaker(conversations, id) ==
  IF ~KnownGroup(conversations, id) THEN [conversations |-> conversations, ret |-> "None"]
  ELSE LET state == conversations[id + 1] IN
    IF state.pending_responses # <<>>
      THEN LET next_speaker == Head(state.pending_responses) IN
           [conversations |->
              [conversations EXCEPT ![id + 1] =
                 [state EXCEPT !.pending_responses = Tail(@),
                               !.active_speakers = Append(@, next_speaker)]],
            ret |-> next_speaker]
      ELSE [conversations |-> conversations, ret |-> "None"]

\* a caller runs determine_next_speaker(conv_id)
DetermineNextSpeaker(id) ==
  /\ grp.left > 0
  /\ LET out == determine_next_speaker(grp.conversations, id) IN
       grp' = [grp EXCEPT !.left = @ - 1,
                          !.conversations = out.conversations,
                          !.returned = IF out.ret = "None" THEN @
                                       ELSE [@ EXCEPT ![id + 1] = Append(@, out.ret)],
                          !.last = [op |-> "determine_next_speaker", id |-> id,
                                    ret |-> out.ret]]
  /\ UNCHANGED <<busVars, callerVars, docVars, agentVars, hand, routing, dp, abc, call, collab>>

MessageTypes == {"conclusion", "proposal", "other"}

\* update_conversation_stage(conv_id, message)
UpdateConversationStage(id, type) ==
  /\ grp.left > 0
  /\ grp' = [grp EXCEPT
               !.left = @ - 1,
               !.conversations =
                  IF ~KnownGroup(grp.conversations, id) THEN @
                  ELSE [@ EXCEPT ![id + 1].stage =
                          IF type = "conclusion" THEN "concluding"
                          ELSE IF type = "proposal" THEN "deliberation"
                          ELSE @],
               !.last = [op |-> "update_conversation_stage", id |-> id, ret |-> "None"]]
  /\ UNCHANGED <<busVars, callerVars, docVars, agentVars, hand, routing, dp, abc, call, collab>>

\* ----------------------------------------------- CollaborationManager
AgentIds == {"inventory", "operations"}

NoCollabCall == [op |-> "none", id |-> 0, from |-> "none", raised |-> "none"]

\* AgentContext.__post_init__: an empty conversation_history
AgentContext == [registered |-> TRUE, conversation_history |-> <<>>]

\* CollaborationManager.__init__: no agents, no conversations. agents[a] is
\* the AgentContext of a once registered; conversations holds the message
\* list of each conversation; sent: the messages built so far
NewCollaborationManager ==
  [left |-> 0,
   agents |-> [a \in AgentIds |-> [registered |-> FALSE, conversation_history |-> <<>>]],
   conversations |-> <<>>, sent |-> 0, last |-> NoCollabCall]

\* register_agent(agent_id, expertise): a new AgentContext under agent_id
RegisterAgent(a) ==
  /\ collab.left > 0
  /\ collab' = [collab EXCEPT !.left = @ - 1,
                              !.agents[a] = AgentContext,
                              !.last = [op |-> "register_agent", id |-> 0, from |-> a,
                                        raised |-> "none"]]
  /\ UNCHANGED <<busVars, callerVars, docVars, agentVars, hand, routing, dp, abc, call, grp>>

\* create_conversation(pattern, participants): the id is conv_<number of
\* conversations so far>, kept here as that number; no message yet
CreateConversation ==
  /\ collab.left > 0
  /\ collab' = [collab EXCEPT !.left = @ - 1,
                              !.conversations = Append(@, <<>>),
                              !.last = [op |-> "create_conversation",
                                        id |-> Len(collab.conversations), from |-> "none",
                                        raised |-> "none"]]
  /\ UNCHANGED <<busVars, callerVars, docVars, agentVars, hand, routing, dp, abc, call, grp>>

\* add_message(conv_id, from_agent, content): the manager after the call
\* and the exception that left it ("none" when it returned)
add_message(c, id, from_agent) ==
  IF id + 1 \notin 1..Len(c.conversations)
    THEN [c |-> c, raised |-> "ValueError"]
  ELSE LET message == [from |-> from_agent, n |-> c.sent + 1]
           \* self.active_conversations[conv_id]['messages'].append(message)
           c1 == [c EXCEPT !.sent = @ + 1,
                           !.conversations[id + 1] = Append(@, message)] IN
    IF ~c.agents[from_agent].registered
      THEN \* self.agents[from_agent]: KeyError
           [c |-> c1, raised |-> "KeyError"]
      ELSE [c |-> [c1 EXCEPT !.agents[from_agent].conversation_history =
                               Append(@, message)],
            raised |-> "none"]

\* a caller runs add_message(conv_id, from_agent, content)
AddMessage(id, from_agent) ==
  /\ collab.left > 0
  /\ LET out == add_message(collab, id, from_agent) IN
       collab' = [out.c EXCEPT !.left = @ - 1,
                               !.last = [op |-> "add_message", id |-> id,
                                         from |-> from_agent, raised |-> out.raised]]
  /\ UNCHANGED <<busVars, callerVars, docVars, agentVars, hand, routing, dp, abc, call, grp>>

InitMore ==
  /\ call = NoCall
  /\ grp = NewGroupOrchestrator
  /\ collab = NewCollaborationManager

\* ------------------------------------------------------- specifications
NoDocsRun == [calls |-> 0, succeeded |-> 0, sent |-> 0, insight_tasks |-> 0, returned |-> 0]

InitCallers ==
  /\ cpc = Idle
  /\ cres = NoResult
  /\ docsRun = NoDocsRun

InitAgent ==
  /\ ag = AgentInitState
  /\ result = NoResponse
  /\ trace = NoTrace

InitExt ==
  /\ hand = NoHandoff
  /\ routing = NoRouting
  /\ dp = NewProcessor
  /\ abc = NoAbc
  /\ InitMore

InitRest ==
  /\ InitCallers
  /\ InitAgent
  /\ InitExt
  /\ callsLeft = 0

\* the senders and contexts of the external send_message calls of Spec
Senders == {"supervisor", "inventory"}
Contexts == {<<FALSE, FALSE>>, <<TRUE, FALSE>>, <<FALSE, TRUE>>}

\* The message bus alone: external senders and the four workers.
Init ==
  /\ InitBus(0)
  /\ InitRest
  /\ opsLeft = MaxSend

Next ==
  \/ \E s \in Senders, r \in Roles, c \in Contexts : Send(s, r, c[1], c[2])
  \/ \E r \in Roles : WorkerTake(r, FALSE)
  \/ \E r \in Roles : WorkerFinish(r)

Spec == Init /\ [][Next]_vars

\* The bus with process calls that may never return, under the fairness of
\* thread scheduling: each worker is a thread of its own and keeps running.
FairInit ==
  /\ InitBus(0)
  /\ InitRest
  /\ opsLeft = MaxFairSend

FairNext ==
  \/ \E r \in {"inventory", "supervisor", "math"}, rr \in BOOLEAN :
        Send("supervisor", r, FALSE, rr)
  \/ \E r \in Roles, hang \in BOOLEAN : WorkerTake(r, hang)
  \/ \E r \in Roles : WorkerFinish(r)

Fairness ==
  \A r \in Roles :
    /\ WF_vars(\E hang \in BOOLEAN : WorkerTake(r, hang))
    /\ WF_vars(WorkerFinish(r))

FairSpec == FairInit /\ [][FairNext]_vars /\ Fairness

\* The whole orchestrator: construction with documents on disk, the workers,
\* external senders, direct callers and process_documents.
SysInit ==
  /\ \E n \in 0..MaxPreloaded : InitBus(n)
  /\ InitRest
  /\ opsLeft = MaxSysOps

SysNext ==
  \/ \E r \in {"inventory", "math"}, ins \in BOOLEAN : Send("supervisor", r, ins, FALSE)
  \/ \E r \in Roles : WorkerTake(r, FALSE)
  \/ \E r \in Roles : WorkerFinish(r)
  \/ \E math \in BOOLEAN, atype \in {"none", "inventory", "operations", "quality"} :
        ProcessQueryStart(math, atype)
  \/ \E route \in {"inventory", "operations", "math"} :
        ProcessQueryWithValidationStart(route)
  \/ CallerReturn
  \/ \E results \in Batches : ProcessDocuments(results)

SysSpec == SysInit /\ [][SysNext]_vars

\* One BaseAgent (an InventoryAgent or OperationsAgent) and the callers of its process.
AgentInit ==
  /\ InitBus(0)
  /\ InitCallers
  /\ InitAgent
  /\ InitExt
  /\ opsLeft = 0
  /\ callsLeft = MaxCalls

AgentNext == \E sc \in Scenarios : CallProcess(sc)

AgentSpec == AgentInit /\ [][AgentNext]_vars

\* The handoff procedure and its callers; a running procedure keeps running.
HandoffInit ==
  /\ InitBus(0)
  /\ InitRest
  /\ opsLeft = 0

HandoffNext ==
  \/ \E initial \in HandoffAgents : ProcessWithHandoffStart(initial)
  \/ \E routed \in HandoffAgents : HandoffHop(routed)

HandoffSpec ==
  HandoffInit /\ [][HandoffNext]_vars /\ WF_vars(\E routed \in HandoffAgents : HandoffHop(routed))

\* The Supervisor's routing and its callers.
RouteInit ==
  /\ InitBus(0)
  /\ InitRest
  /\ opsLeft = 0

RouteNext == \E query \in Queries, answer \in Answers : RouteQuery(query, answer)

RouteSpec == RouteInit /\ [][RouteNext]_vars

\* One BaseAgent over a long conversation: plain exchanges through process
\* and process_stream, failed calls, and resets.
HistoryScenarios ==
  {sc \in Scenarios : sc.context = "none" /\ sc.tools = <<>> /\ sc.content = "text"
                         /\ sc.second = "text"}

HistoryInit ==
  /\ InitBus(0)
  /\ InitCallers
  /\ InitAgent
  /\ InitExt
  /\ opsLeft = 0
  /\ callsLeft = MaxHistoryCalls

HistoryNext ==
  \/ \E sc \in HistoryScenarios : CallProcess(sc)
  \/ \E outcome \in {"ok", "raise"} : ProcessStream(outcome)
  \/ ResetConversation

HistorySpec == HistoryInit /\ [][HistoryNext]_vars

\* One DocumentProcessor and the callers of its batch interface.
DocInit ==
  /\ InitBus(0)
  /\ InitCallers
  /\ InitAgent
  /\ hand = NoHandoff
  /\ routing = NoRouting
  /\ dp = [NewProcessor EXCEPT !.left = MaxBatches]
  /\ abc = NoAbc
  /\ InitMore
  /\ opsLeft = 0
  /\ callsLeft = 0

DocNext == \E paths \in PathLists : ProcessDocumentsBatch(paths)

DocSpec == DocInit /\ [][DocNext]_vars

\* One ABC classification call, of either agent, on any item list.
AbcInit ==
  /\ InitBus(0)
  /\ InitCallers
  /\ InitAgent
  /\ hand = NoHandoff
  /\ routing = NoRouting
  /\ dp = NewProcessor
  /\ InitMore
  /\ \E tool \in AbcTools, values \in ValueLists :
        abc = [tool |-> tool, values |-> values, out |-> [kind |-> "none"]]
  /\ opsLeft = 0
  /\ callsLeft = 0

AbcNext == AbcClassification

AbcSpec == AbcInit /\ [][AbcNext]_vars

\* One Pareto analysis call, of either agent, on any item list.
ParetoInit ==
  /\ InitBus(0)
  /\ InitCallers
  /\ InitAgent
  /\ hand = NoHandoff
  /\ routing = NoRouting
  /\ dp = NewProcessor
  /\ InitMore
  /\ \E tool \in ParetoTools, values \in ValueLists :
        abc = [tool |-> tool, values |-> values, out |-> [kind |-> "none"]]
  /\ opsLeft = 0
  /\ callsLeft = 0

ParetoNext == ParetoAnalysis

ParetoSpec == ParetoInit /\ [][ParetoNext]_vars

\* One tool call of an agent: any of the agents, any function name, any arguments.
AnalysisInit ==
  /\ InitBus(0)
  /\ InitCallers
  /\ InitAgent
  /\ hand = NoHandoff
  /\ routing = NoRouting
  /\ dp = NewProcessor
  /\ abc = NoAbc
  /\ grp = NewGroupOrchestrator
  /\ collab = NewCollaborationManager
  /\ \E agent \in AnalysisAgents, input \in Inputs,
        fn \in UNION {Capabilities[a] : a \in AnalysisAgents} :
        call = [agent |-> agent, fn |-> fn, input |-> input, out |-> [kind |-> "none"]]
  /\ opsLeft = 0
  /\ callsLeft = 0

AnalysisNext == ExecuteAnalysis

AnalysisSpec == AnalysisInit /\ [][AnalysisNext]_vars

\* One GroupOrchestrator and its callers.
GroupInit ==
  /\ InitBus(0)
  /\ InitCallers
  /\ InitAgent
  /\ hand = NoHandoff
  /\ routing = NoRouting
  /\ dp = NewProcessor
  /\ abc = NoAbc
  /\ call = NoCall
  /\ grp = [NewGroupOrchestrator EXCEPT !.left = MaxGroupCalls]
  /\ collab = NewCollaborationManager
  /\ opsLeft = 0
  /\ callsLeft = 0

GroupNext ==
  \/ \E participants \in ParticipantLists : CreateGroupDiscussion(participants)
  \/ \E id \in 0..MaxGroupCalls : DetermineNextSpeaker(id)
  \/ \E id \in 0..MaxGroupCalls, type \in MessageTypes : UpdateConversationStage(id, type)

GroupSpec == GroupInit /\ [][GroupNext]_vars

\* One CollaborationManager and its callers.
CollabInit ==
  /\ InitBus(0)
  /\ InitCallers
  /\ InitAgent
  /\ hand = NoHandoff
  /\ routing = NoRouting
  /\ dp = NewProcessor
  /\ abc = NoAbc
  /\ call = NoCall
  /\ grp = NewGroupOrchestrator
  /\ collab = [NewCollaborationManager EXCEPT !.left = MaxCollabCalls]
  /\ opsLeft = 0
  /\ callsLeft = 0

CollabNext ==
  \/ \E a \in AgentIds : RegisterAgent(a)
  \/ CreateConversation
  \/ \E id \in 0..MaxCollabCalls, a \in AgentIds : AddMessage(id, a)

CollabSpec == CollabInit /\ [][CollabNext]_vars

\* =============================================================== claims
Range(f) == {f[k] : k \in DOMAIN f}

IsPrefix(a, b) == Len(a) <= Len(b) /\ SubSeq(b, 1, Len(a)) = a

\* the number of places of a sequence that hold x
Occurrences(f, x) == Cardinality({k \in DOMAIN f : f[k] = x})

\* worker r has started on message id / has finished with it
Started(r, id) == id \in Range(handled[r]) \/ (wpc[r] = "processing" /\ cur[r].id = id)
Finished(r, id) == id \in Range(handled[r])

\* C1: each role's worker handles the messages of its queue in the order
\* send_message put them there, one at a time: the finished ones are a prefix
\* of the put order, the one in progress is the next of that order, so a
\* message starts only when every message put before it has finished.
C1_FifoPerRole ==
  \A r \in Roles :
    /\ IsPrefix(handled[r], enq[r])
    /\ wpc[r] = "processing" =>
         /\ Len(handled[r]) < Len(enq[r])
         /\ cur[r].id = enq[r][Len(handled[r]) + 1]
    /\ \A i, j \in 1..Len(enq[r]) :
         (i < j /\ Started(r, enq[r][j])) => Finished(r, enq[r][i])

\* two messages to one role, from different senders, both handled
C1_Witness ==
  \E r \in Roles :
    /\ Len(handled[r]) >= 2
    /\ created[handled[r][1]].sender # created[handled[r][2]].sender

\* C2: every message sent is handled exactly once and only by the worker of
\* its receiver: at any time it is waiting on that queue, in progress there or
\* finished there, in exactly one of these places once, and nowhere else,
\* also when the handling of it or of an earlier message raised.
C2_ExactlyOnce ==
  \A id \in 1..Len(created) :
    LET m == created[id] IN
      /\ m.id = id
      /\ Occurrences(handled[m.receiver], id)
           + Occurrences(Ids(queue[m.receiver]), id)
           + (IF wpc[m.receiver] = "processing" /\ cur[m.receiver].id = id THEN 1 ELSE 0)
           = 1
      /\ \A w \in Roles \ {m.receiver} :
           /\ ~Started(w, id)
           /\ id \notin Range(Ids(queue[w]))

\* a worker whose handling of a message raised has gone on to finish a later one
C2_Witness ==
  \E r \in Roles :
    /\ failed[r]
    /\ Len(handled[r]) >= 2
    /\ ~Subscriptable(created[handled[r][1]].content)
    /\ Subscriptable(created[handled[r][2]].content)

\* the step in which worker r finishes handling a message
Finishes(r) == Len(handled'[r]) = Len(handled[r]) + 1

\* the message worker r finishes in this step
FinishedNow(r) == created[handled'[r][Len(handled'[r])]]

\* the step sends exactly one message, the reply to m
SendsExactlyReplyTo(m) ==
  /\ Len(created') = Len(created) + 1
  /\ SubSeq(created', 1, Len(created)) = created
  /\ LET rep == created'[Len(created')] IN
       /\ rep.sender = m.receiver
       /\ rep.receiver = m.sender
       /\ rep.in_response_to = m.id
       /\ queue'[m.sender] = Append(queue[m.sender], rep)

\* the step sends no message
SendsNothing == created' = created /\ \A r \in Roles : Len(queue'[r]) <= Len(queue[r])

FairIds == 1..(2 * MaxFairSend)

\* message id has been put on the queue of role r
Enqueued(r, id) == id \in Range(enq[r])

\* C4: an exception raised while handling a message neither ends the worker
\* nor blocks its queue: the worker stays in its loop, and once a handling of
\* role r has raised, every message on r's queue, put there before or after,
\* is eventually handled (unless r's agent itself never returns from process).
C4_WorkerSurvivesFailure ==
  /\ [](\A r \in Roles : wpc[r] \in {"poll", "processing"})
  /\ \A r \in Roles : \A id \in FairIds :
       (failed[r] /\ Enqueued(r, id)) ~> (Finished(r, id) \/ stuck[r])

\* a worker handled a message put on its queue after the one whose handling raised
C4_Witness ==
  \E r \in Roles :
    /\ failed[r]
    /\ \E i, j \in 1..Len(handled[r]) :
         /\ i < j
         /\ ~Subscriptable(created[handled[r][i]].content)
         /\ Subscriptable(created[handled[r][j]].content)

\* C7: no role's worker blocks another's: while the worker of role r is inside
\* a process call that never returns, or after a handling of r raised, every
\* message put on the queue of another role r2 is still eventually handled
\* (unless r2's own agent never returns).
C7_WorkersIndependent ==
  \A r2 \in Roles : \A id \in FairIds :
    ((\E r \in Roles \ {r2} : stuck[r] \/ failed[r]) /\ Enqueued(r2, id))
      ~> (Finished(r2, id) \/ stuck[r2])

\* while one worker is stuck in process, another has finished a message that
\* was sent after the one the stuck worker is in
C7_Witness ==
  \E r \in Roles : \E r2 \in Roles \ {r} :
    /\ wpc[r] = "processing"
    /\ stuck[r]
    /\ \E k \in 1..Len(handled[r2]) : handled[r2][k] > cur[r].id

\* C8: every step changes each knowledge-base sequence only by appending at
\* its end: what it held before the step is a prefix of what it holds after.
C8_KnowledgeBaseAppendOnly ==
  [][\A k \in DOMAIN kb : IsPrefix(kb[k], kb'[k])]_vars

\* documents, insights and calculations have all been recorded
C8_Witness ==
  /\ kb.documents # <<>>
  /\ kb.insights # <<>>
  /\ kb.calculations # <<>>

\* C9: no insight append is lost or duplicated when several workers handle
\* insight-bearing messages: every such message a worker has started on has
\* exactly one entry, attributed to its sender, every entry belongs to such a
\* message, and so once all are handled there is one entry per message.
C9_InsightsExact ==
  /\ \A id \in 1..Len(created) :
       LET n == Cardinality({k \in 1..Len(kb.insights) : kb.insights[k].content = id}) IN
         IF created[id].insight /\ Started(created[id].receiver, id)
           THEN /\ n = 1
                /\ \A k \in 1..Len(kb.insights) :
                     kb.insights[k].content = id =>
                       kb.insights[k].source = created[id].sender
           ELSE n = 0
  /\ Len(kb.insights) =
       Cardinality({id \in 1..Len(created) :
                      created[id].insight /\ Started(created[id].receiver, id)})

\* two workers are handling insight-bearing messages at the same time
C9_Witness ==
  \E r \in Roles : \E r2 \in Roles \ {r} :
    /\ wpc[r] = "processing" /\ cur[r].insight
    /\ wpc[r2] = "processing" /\ cur[r2].insight
    /\ Len(kb.insights) = 2

\* the process invocations in progress on the agent of role a: its worker's
\* and the direct caller's
InProgress(a) ==
  (IF wpc[a] = "processing" THEN 1 ELSE 0)
    + (IF cpc.at = "process" /\ cpc.agent = a THEN 1 ELSE 0)

\* C5 as claimed: at no time are two process invocations in progress on one
\* agent instance.
C5_OneProcessPerAgent == \A a \in Roles : InProgress(a) <= 1

\* C6 as claimed: process_documents with N successfully ingested documents
\* sends one extract_insights message per such document to each of inventory
\* and operations, 2 * N messages in all.
C6_FanOut ==
  docsRun.calls > 0 =>
    /\ docsRun.insight_tasks = 2 * docsRun.succeeded
    /\ docsRun.sent = 2 * docsRun.succeeded

\* the scenarios in which the completion call fails or times out (the first,
\* or the second when the tool calls got that far), a tool call's arguments
\* cannot be parsed, or a tool function raises
FailingScenario(sc) ==
  /\ sc.context # "bad"
  /\ \/ sc.first = "raise"
     \/ \E k \in 1..Len(sc.tools) : sc.tools[k] \in {"bad_args", "raises"}
     \/ sc.tools # <<>> /\ sc.second = "raise"

C11_MetadataHasFlag ==
  result.kind = "response" =>
    ("error" \in result.metadata \/ "success" \in result.metadata)

\* the outcomes of the tool calls of the last process call that stand for a
\* failed analysis function: those recorded in function_calls, and the one
\* that raised
FailedAnalysisRan ==
  {result.function_calls[k].result : k \in 1..Len(result.function_calls)}
     \cap {AnalysisFailure[fn] : fn \in DOMAIN AnalysisFailure}

\* C12 as claimed: whenever an analysis function run as a tool during process
\* fails, the AgentResponse returned has metadata error = true (and process
\* raises nothing).
C12_AnalysisErrorFlagged ==
  /\ result.kind # "raised"
  /\ (result.kind = "response"
        /\ (FailedAnalysisRan # {} \/ result.failure = "function"))
       => "error" \in result.metadata

\* C13 as claimed: process_query called with an agent type that names no
\* known agent returns, for every query text, a result carrying an error
\* field.
C13_UnknownAgentTypeIsError ==
  (cpc.at = "idle" /\ cres.op = "process_query"
     /\ cres.agent_type \notin {"none", "inventory", "operations"})
    => cres.error

\* C14: for every initial agent and every routing decision the handoff
\* procedure terminates, and the handoff chain, while it is built and when it
\* is returned, has length at most 5.
C14_HandoffBounded ==
  /\ [](Len(hand.chain) <= 5 /\ Len(hand.returned) <= 5)
  /\ (hand.at = "running" ~> hand.at = "idle")

\* a chain of five agents, the Supervisor redirecting to itself up to the
\* bound, has been returned
C14_Witness ==
  /\ hand.at = "idle"
  /\ Len(hand.returned) = 5
  /\ hand.returned[4] = "supervisor"

\* the highest keyword-hit score of a query
MaxScore(query) == CHOOSE m \in Range(query) : \A k \in DOMAIN query : query[k] <= m

\* the domain with the highest score, the first such in the priority order
\* (inventory when every score is 0)
KeywordPrimary(query) ==
  Domains[CHOOSE k \in DOMAIN query :
            /\ query[k] = MaxScore(query)
            /\ \A j \in 1..(k - 1) : query[j] < MaxScore(query)]

\* C15 as claimed: the primary agent chosen for a query is the domain with
\* the highest keyword-hit score, ties going to the first in the order
\* inventory, operations, math, quality, and a query with no hit to inventory.
C15_KeywordRouting ==
  routing.last.agent # "none" =>
    routing.last.agent = KeywordPrimary(routing.last.query)

\* C16 as claimed: any two routing calls with the same query text return the
\* same primary agent, whatever the external collaborators answered.
C16_RoutingDeterministic ==
  \A p, q \in routing.log : p[1] = q[1] => p[2] = q[2]

\* C17 as claimed: after any sequence of process and process_stream calls the
\* stored conversation history holds at most the last N exchanges, N the
\* configured MAX_CONVERSATION_HISTORY.
C17_HistoryBounded == Len(ag.history) <= MAX_CONVERSATION_HISTORY

\* C18: process_documents returns exactly one result per input path, in
\* input order: the result at each place is the one its own path gives (read
\* files succeed, the others have success = false there), whatever the other
\* paths of the batch are, and whatever the processor did before.
C18_OneResultPerPath ==
  dp.calls > 0 =>
    /\ Len(dp.results) = Len(dp.paths)
    /\ \A k \in 1..Len(dp.paths) :
         /\ dp.results[k].success = (dp.paths[k] \in {"docling", "fallback"})
         /\ dp.results[k].document_text =
              (CASE dp.paths[k] = "docling" -> "markdown"
                 [] dp.paths[k] = "fallback" -> "text"
                 [] OTHER -> "")
         /\ ~dp.results[k].success => dp.results[k].error # ""
         /\ \A other \in PathLists :
              Len(other) >= k /\ other[k] = dp.paths[k] =>
                ProcessFiles(other, 1, NewProcessor, <<>>).results[k] = dp.results[k]

\* a batch whose first path fails and whose second is read, after an earlier batch
C18_Witness ==
  /\ dp.calls >= 2
  /\ Len(dp.paths) = 2
  /\ ~dp.results[1].success
  /\ dp.results[2].success

\* C19 as claimed: in every reachable state every entry of every
\* knowledge-base sequence carries a timestamp and the identity of the source
\* agent that produced it.
C19_EntriesStamped ==
  \A k \in DOMAIN kb : \A i \in 1..Len(kb[k]) :
    {"timestamp", "source"} \subseteq DOMAIN kb[k][i]

\* the sum of the values of a call's items
TotalValue(values) == SumValues(Items(values))

\* C20: for every non-empty item list with valid values (none negative,
\* their total positive, so that the percentages exist) the classification
\* gives each item exactly one of A, B, C: the three category lists are
\* disjoint, have no repeats and together hold every input item; along the
\* results the values descend, the cumulative percentage never decreases,
\* and it is 100.00 at the last item.
C20_AbcPartition ==
  (abc.out.kind # "none" /\ abc.values # <<>> /\ TotalValue(abc.values) > 0) =>
    LET out == abc.out
        n == Len(abc.values)
        res == out.classification IN
      /\ out.kind = "classification"
      /\ Len(res) = n
      /\ {res[k].id : k \in 1..n} = 1..n
      /\ \A k \in 1..n : res[k].value = abc.values[res[k].id]
      /\ \A k \in 1..n : res[k].category \in {"A", "B", "C"}
      /\ Range(out.a_items) \cap Range(out.b_items) = {}
      /\ Range(out.a_items) \cap Range(out.c_items) = {}
      /\ Range(out.b_items) \cap Range(out.c_items) = {}
      /\ Range(out.a_items) \cup Range(out.b_items) \cup Range(out.c_items) = 1..n
      /\ Len(out.a_items) + Len(out.b_items) + Len(out.c_items) = n
      /\ \A k \in 1..(n - 1) :
           /\ res[k].value >= res[k + 1].value
           /\ res[k].cumulative_percentage <= res[k + 1].cumulative_percentage
      /\ res[n].cumulative_percentage = 10000

\* three items of different values out of order, one of them of value 0,
\* classified into more than one category
C20_Witness ==
  /\ abc.out.kind = "classification"
  /\ Len(abc.values) = 3
  /\ abc.values[1] < abc.values[2]
  /\ abc.values[3] = 0
  /\ abc.out.a_items # <<>>
  /\ abc.out.c_items # <<>>

\* the sum of the first k values of a sequence of results
RECURSIVE PrefixValue(_, _)
PrefixValue(res, k) == IF k = 0 THEN 0 ELSE res[k].value + PrefixValue(res, k - 1)

\* C21: Pareto analysis puts every item in exactly one of vital_few and
\* trivial_many; vital_few holds exactly the items whose cumulative
\* percentage is at most 80; both keep the descending rank order of the
\* sort: vital_few is a prefix of the sorted results, trivial_many the rest.
C21_ParetoSplit ==
  abc.out.kind = "analysis" =>
    LET out == abc.out
        res == out.analysis
        n == Len(abc.values)
        total == PrefixValue(res, Len(res)) IN
      /\ Len(res) = n
      /\ {res[k].id : k \in 1..n} = 1..n
      /\ \A k \in 1..n : res[k].value = abc.values[res[k].id] /\ res[k].rank = k
      /\ \A k \in 1..(n - 1) : res[k].value >= res[k + 1].value
      /\ out.vital_few \o out.trivial_many = res
      /\ \A k \in 1..n :
           (k <= Len(out.vital_few)) <=> (100 * PrefixValue(res, k) <= 80 * total)

\* three items given out of order, two of them vital (the second exactly at
\* 80%), one trivial
C21_Witness ==
  /\ abc.out.kind = "analysis"
  /\ Len(abc.values) = 3
  /\ abc.values[1] < abc.values[2]
  /\ Len(abc.out.vital_few) = 2
  /\ Len(abc.out.trivial_many) = 1

\* C22 as claimed: every analysis function, for every input, returns either
\* a result with all the fields of its schema or a result that is only an
\* error message; it never raises to its caller and never returns a partly
\* filled result.
C22_FullResultOrError ==
  call.out.kind # "none" =>
    /\ call.out.kind = "dict"
    /\ \/ call.out.fields = {"error"}
       \/ call.fn \in Capabilities[call.agent]
            /\ call.out.fields = Schema(call.agent, call.fn)

\* C23: ABC classification called with an empty item list returns an
\* explicit error result: it has an error message and no classification.
C23_EmptyAbcIsError ==
  (abc.tool \in AbcTools /\ abc.out.kind # "none" /\ abc.values = <<>>) =>
    /\ abc.out.kind = "error"
    /\ DOMAIN abc.out = {"kind", "error"}

\* either ABC function has been called with no items
C23_Witness ==
  /\ abc.tool = "abc_analysis"
  /\ abc.values = <<>>
  /\ abc.out.kind = "error"

\* sequence b is sequence a with exactly one entry appended
GrowsByOne(a, b) == Len(b) = Len(a) + 1 /\ SubSeq(b, 1, Len(a)) = a

\* C24 as claimed: every query the orchestrator answers successfully is
\* recorded in the knowledge base: the return of a successful query appends
\* exactly one entry, to calculations for a query detected as mathematical
\* and to decisions otherwise, and a query that ends in an error result
\* appends none.
C24_AnsweredIsRecorded ==
  [][/\ (cpc.at = "process" /\ cpc'.at = "idle") =>
          IF cres'.error THEN kb' = kb
          ELSE IF cpc.stage = "verify"
            THEN /\ GrowsByOne(kb.calculations, kb'.calculations)
                 /\ kb' = [kb EXCEPT !.calculations = kb'.calculations]
            ELSE /\ GrowsByOne(kb.decisions, kb'.decisions)
                 /\ kb' = [kb EXCEPT !.decisions = kb'.decisions]
     /\ (cpc.at = "idle" /\ cpc'.at = "idle" /\ cres' # cres) => kb' = kb]_vars

\* The places 1..n of a list, in order
Places(n) == [k \in 1..n |-> k]

\* tool call k of the list neither fails to parse nor raises
Runs(tools, k) == tools[k] \in {"ok", "error_dict"}

\* the first tool call of the list that fails (Len + 1 when none does)
FirstFailing(tools) ==
  IF \A k \in 1..Len(tools) : Runs(tools, k) THEN Len(tools) + 1
  ELSE CHOOSE k \in 1..Len(tools) : ~Runs(tools, k) /\ \A j \in 1..(k - 1) : Runs(tools, j)

\* what holds of every process call whatever its tool calls do: never more
\* than two completion calls; one when no tool calls are returned; the tool
\* functions run after the first completion in the order returned; a success
\* response lists every tool call, in that order
C25_Common ==
  /\ trace.completions <= 2
  /\ (trace.returned /\ trace.tool_calls = <<>>) =>
        /\ trace.completions = 1
        /\ trace.events = <<Completion>>
  /\ trace.returned =>
        /\ IsPrefix(trace.tools, Places(Len(trace.tool_calls)))
        /\ IsPrefix(<<Completion>> \o trace.tools, trace.events)
  /\ (result.kind = "response" /\ result.failure = "none" /\ trace.returned) =>
        result.function_calls =
          [k \in 1..Len(trace.tool_calls) |-> [function |-> k, result |-> trace.tool_calls[k]]]

RepliesTo(id) == {k \in 1..Len(created) : created[k].in_response_to = id}

\* C26: a reply built by a worker never carries requires_response, so no
\* message is a reply to a reply: each externally sent message causes at most
\* one further message, and once the external senders have stopped, the queue
\* of every role (whose agent returns from its process calls) becomes empty
\* and stays empty.
C26_NoReplyPingPong ==
  /\ [](\A k \in 1..Len(created) :
          created[k].in_response_to # 0 =>
            /\ ~created[k].requires_response
            /\ created[created[k].in_response_to].in_response_to = 0)
  /\ [](\A id \in 1..Len(created) : Cardinality(RepliesTo(id)) <= 1)
  /\ [](Len(created) <= 2 * MaxFairSend)
  /\ \A r \in Roles : <>[](queue[r] = <<>> \/ stuck[r])

\* a reply with a str content has been handled by the role it was sent to,
\* nothing was sent in return, and every queue is empty with every worker polling
C26_Witness ==
  /\ \E k \in 1..Len(created) :
       /\ created[k].in_response_to # 0
       /\ Subscriptable(created[k].content)
       /\ Finished(created[k].receiver, k)
       /\ RepliesTo(k) = {}
  /\ \A r \in Roles : queue[r] = <<>> /\ wpc[r] = "poll"

\* C27 as claimed: a process call that returns the error response leaves
\* queries_processed, last_activity and the conversation history as they were
\* before the call; a successful call adds one to queries_processed and
\* appends exactly one exchange.
C27_ErrorLeavesStateAlone ==
  [][\A sc \in Scenarios :
       CallProcess(sc) =>
         IF "error" \in result'.metadata
           THEN /\ ag'.queries_processed = ag.queries_processed
                /\ ag'.last_activity = ag.last_activity
                /\ ag'.history = ag.history
           ELSE /\ ag'.queries_processed = ag.queries_processed + 1
                /\ GrowsByOne(ag.history, ag'.history)]_vars

\* C28 as claimed: after any sequence of process_file calls, each call has
\* added one to total_processed and one to exactly one of successful and
\* failed: total_processed = successful + failed = the number of calls made,
\* calls for a missing file and calls served by the fallback included.
C28_StatsCountEveryCall ==
  /\ dp.total_processed = dp.successful + dp.failed
  /\ dp.total_processed = dp.files

\* C29: for every group discussion, active_speakers followed by
\* pending_responses is the participant list given at creation, and the
\* speakers returned so far are active_speakers: each participant is returned
\* once, in the listed order; once all have been returned, and for an unknown
\* conversation id, determine_next_speaker returns None and changes nothing.
C29_SpeakersInListedOrder ==
  /\ [](\A k \in 1..Len(grp.conversations) :
          /\ grp.conversations[k].active_speakers \o grp.conversations[k].pending_responses
               = grp.given[k]
          /\ grp.returned[k] = grp.conversations[k].active_speakers)
  /\ [][\A id \in 0..MaxGroupCalls :
          DetermineNextSpeaker(id) =>
            IF KnownGroup(grp.conversations, id)
                 /\ grp.conversations[id + 1].pending_responses # <<>>
              THEN /\ grp'.last.ret = Head(grp.conversations[id + 1].pending_responses)
                   /\ \A k \in 1..Len(grp.conversations) :
                        k # id + 1 => grp'.conversations[k] = grp.conversations[k]
              ELSE /\ grp'.last.ret = "None"
                   /\ grp'.conversations = grp.conversations
                   /\ grp'.returned = grp.returned
                   /\ grp'.given = grp.given]_vars

\* a discussion of two different participants has returned both, first the
\* one listed first, and the call after that returned None
C29_Witness ==
  /\ grp.last.op = "determine_next_speaker"
  /\ grp.last.ret = "None"
  /\ KnownGroup(grp.conversations, grp.last.id)
  /\ grp.given[grp.last.id + 1] = <<"operations", "inventory">>
  /\ grp.returned[grp.last.id + 1] = <<"operations", "inventory">>
  /\ grp.conversations[grp.last.id + 1].pending_responses = <<>>

\* C30 as claimed: add_message either appends the message to the
\* conversation's message list and to the sender's conversation history, or
\* raises and changes neither, for an unknown conversation id and for a sender
\* never registered alike.
C30_AddMessageAllOrNothing ==
  [][\A id \in 0..MaxCollabCalls : \A a \in AgentIds :
       AddMessage(id, a) =>
         IF collab'.last.raised # "none"
           THEN /\ collab'.conversations = collab.conversations
                /\ collab'.agents = collab.agents
           ELSE /\ GrowsByOne(collab.conversations[id + 1], collab'.conversations[id + 1])
                /\ GrowsByOne(collab.agents[a].conversation_history,
                              collab'.agents[a].conversation_history)]_vars

====
